---- MODULE Spec2Model ----
(***************************************************************************)
(* Model of src/main.rs: the recursive generator of block permutations     *)
(* (shuffle_lines), its closed-form estimate                               *)
(* (calculate_estimated_permutation_count), the fan-out bounding rewrite   *)
(* (optimize_permutations) and the depth metric (count_permutations).      *)
(*                                                                         *)
(* Spec       : main() with its inputs (line count, starting block size,   *)
(*              minimal block size) drawn from bounded sets.               *)
(* SpecForest : optimize_permutations and count_permutations applied to    *)
(*              every forest of Permutation values up to MaxNodes nodes.   *)
(***************************************************************************)
EXTENDS Integers, Sequences, FiniteSets

VARIABLES pc, lines, blocksize, min_blocksize, estimated_permutation_count,
          count, permutations, opt_count, block_depth, before

vars == <<pc, lines, blocksize, min_blocksize, estimated_permutation_count,
          count, permutations, opt_count, block_depth, before>>

(* ---------------------------- bounds ----------------------------------- *)
MaxLen == 8
MaxBlock == 8
MaxChunks == 4
MaxNodes == 6

(* ------------------------- program constants --------------------------- *)
MAX_PARENT_PERMUTATIONS == 2
UNSCORED == 999999
\* value standing for "the call does not return a number"
NoReturn == -1

(* ------------------------------ helpers -------------------------------- *)
Min(a, b) == IF a < b THEN a ELSE b

RECURSIVE Flatten(_)
\* lines.append(chunk) for every chunk, in order
Flatten(ss) ==
    IF Len(ss) = 0 THEN <<>>
    ELSE IF Len(ss) = 1 THEN ss[1]
    ELSE LET mid == Len(ss) \div 2
         IN  Flatten(SubSeq(ss, 1, mid)) \o Flatten(SubSeq(ss, mid + 1, Len(ss)))

RemoveAt(s, i) == SubSeq(s, 1, i - 1) \o SubSeq(s, i + 1, Len(s))

\* a variant that drops a trailing chunk shorter than n
Chunks_dropshort(s, n) ==
    [c \in 1..(Len(s) \div n) |-> SubSeq(s, (c - 1) * n + 1, c * n)]

\* Itertools::chunks(n), n > 0: consecutive runs of n items, the last one
\* possibly shorter; no chunk at all for an empty input
Chunks(s, n) ==
    [c \in 1..((Len(s) + n - 1) \div n) |->
        SubSeq(s, (c - 1) * n + 1, Min(c * n, Len(s)))]

RECURSIVE Permutations(_)
\* Itertools::permutations(len): every ordering of the items, by position,
\* in lexicographic order of the positions; one empty ordering of nothing
Permutations(s) ==
    IF Len(s) = 0 THEN << <<>> >>
    ELSE Flatten([i \in 1..Len(s) |->
            LET rest == Permutations(RemoveAt(s, i))
            IN  [j \in 1..Len(rest) |-> <<s[i]>> \o rest[j]]])

Permutation(l, c) ==
    [lines |-> l, entropy |-> UNSCORED, child_permutations |-> c]

(* ---------------------------- shuffle_lines ---------------------------- *)
ShuffleDone_le(bs, minbs) == bs = 1 \/ bs <= minbs

\* the early return of shuffle_lines
ShuffleDone(bs, minbs) == bs = 1 \/ bs < minbs

\* the halving left commented out in the source: ceil(blocksize / 2)
HalveBlocksize_ceil(bs) == (bs + 1) \div 2

\* blocksize /= 2
HalveBlocksize(bs) == bs \div 2

RECURSIVE shuffle_lines(_, _, _, _), shuffle_loop(_, _, _, _, _, _)
\* result: the returned vector, the count accumulator, and whether the call
\* panicked (chunks(0) asserts size != 0)
shuffle_lines(ls, bs0, minbs, cnt) ==
    IF ShuffleDone(bs0, minbs)
    THEN [ret |-> <<>>, count |-> cnt, panic |-> FALSE]
    ELSE LET bs == HalveBlocksize(bs0)
         IN  IF bs = 0
             THEN [ret |-> <<>>, count |-> cnt, panic |-> TRUE]
             ELSE LET permutations_ == Permutations(Chunks(ls, bs))
                  IN  shuffle_loop(permutations_, 1, Len(permutations_),
                                   bs, minbs, cnt)

\* the for loop over perms[lo..hi], the permutations of the chunks, taken in
\* order with the count handed from one iteration to the next (the range is
\* split in halves only to keep the evaluation shallow)
shuffle_loop(perms, lo, hi, bs, minbs, cnt) ==
    IF lo > hi THEN [ret |-> <<>>, count |-> cnt, panic |-> FALSE]
    ELSE IF lo = hi
    THEN LET ls  == Flatten(perms[lo])
             sub == shuffle_lines(ls, bs, minbs, cnt + 1)
         IN  IF sub.panic
             THEN [ret |-> <<>>, count |-> sub.count, panic |-> TRUE]
             ELSE [ret |-> <<Permutation(ls, sub.ret)>>,
                   count |-> sub.count, panic |-> FALSE]
    ELSE LET mid   == (lo + hi) \div 2
             first == shuffle_loop(perms, lo, mid, bs, minbs, cnt)
         IN  IF first.panic THEN first
             ELSE LET second == shuffle_loop(perms, mid + 1, hi, bs, minbs,
                                             first.count)
                  IN  [ret |-> first.ret \o second.ret,
                       count |-> second.count, panic |-> second.panic]

(* ---------------- calculate_estimated_permutation_count ---------------- *)
EstimateDone_le(bs, minbs) == bs = 1 \/ bs <= minbs

\* the early return of calculate_estimated_permutation_count
EstimateDone(bs, minbs) == bs = 1 \/ bs < minbs

\* (blocksize as f32 / 2.0).floor() as usize; exact for blocksize < 2^24
FloorHalf(bs) == bs \div 2

\* (line_count as f32 / blocksize as f32).ceil() as usize, blocksize > 0;
\* exact for operands < 2^24
CeilDiv(n, d) == (n + d - 1) \div d

RECURSIVE Product(_)
\* (1..=n).product(); 1 for the empty range
Product(n) == IF n <= 0 THEN 1 ELSE n * Product(n - 1)

RECURSIVE calculate_estimated_permutation_count(_, _, _)
\* a block size halved to 0 makes the block count inf as usize = usize::MAX,
\* whose factorial overflows (debug build) or never finishes (release)
calculate_estimated_permutation_count(line_count, bs0, minbs) ==
    IF EstimateDone(bs0, minbs) THEN 0
    ELSE LET bs == FloorHalf(bs0)
         IN  IF bs = 0 THEN NoReturn
             ELSE LET blockcount == CeilDiv(line_count, bs)
                      counter    == Product(blockcount)
                      rest == calculate_estimated_permutation_count(
                                  line_count, bs, minbs)
                  IN  IF rest = NoReturn THEN NoReturn
                      ELSE counter + rest * counter

(* ------------------------ optimize_permutations ------------------------ *)
Adopt_replace(chunk) ==
    IF Len(chunk) = 1 THEN chunk[1]
    ELSE [chunk[1] EXCEPT !.child_permutations = Tail(chunk)]

\* the closure applied to one chunk: a single member is kept as it is,
\* otherwise the first member adopts the others after its own children
Adopt(chunk) ==
    IF Len(chunk) = 1 THEN chunk[1]
    ELSE [chunk[1] EXCEPT
            !.child_permutations = @ \o Tail(chunk)]

\* one iteration of the while loop: new_permutations
Regroup(perms) ==
    LET permutation_chunks == Chunks(perms, MAX_PARENT_PERMUTATIONS)
    IN  [c \in 1..Len(permutation_chunks) |-> Adopt(permutation_chunks[c])]

RECURSIVE Reduce(_)
\* a single grouping pass instead of the loop
Reduce_once(perms) ==
    IF Len(perms) > MAX_PARENT_PERMUTATIONS THEN Regroup(perms) ELSE perms

\* the loop entered when the bound is merely reached
Reduce_ge(perms) ==
    IF Len(perms) >= MAX_PARENT_PERMUTATIONS
    THEN Reduce(Regroup(perms)) ELSE perms

\* the loop body run before the first test
Reduce_dowhile(perms) ==
    LET r == Regroup(perms)
    IN  IF Len(r) > MAX_PARENT_PERMUTATIONS THEN Reduce(r) ELSE r

\* while permutations.len() > MAX_PARENT_PERMUTATIONS { ... }
Reduce(perms) ==
    IF Len(perms) > MAX_PARENT_PERMUTATIONS
    THEN Reduce(Regroup(perms)) ELSE perms

RECURSIVE optimize_permutations(_)
\* the vector as the call leaves it: the list is reduced, then the for loop
\* rewrites the child list of every remaining member
optimize_permutations(perms) ==
    LET reduced == Reduce(perms)
    IN  [i \in 1..Len(reduced) |->
            [reduced[i] EXCEPT
                !.child_permutations = optimize_permutations(@)]]

RECURSIVE optimize_count(_, _), optimize_count_loop(_, _)
\* the count accumulator as the call leaves it: *count += 1, then what the
\* recursive calls of the for loop add
optimize_count(perms, cnt) ==
    cnt + 1 + optimize_count_loop(Reduce(perms), 1)

\* what the recursive calls for the members i, i+1, ... add to the count
optimize_count_loop(reduced, i) ==
    IF i > Len(reduced) THEN 0
    ELSE optimize_count(reduced[i].child_permutations, 0)
            + optimize_count_loop(reduced, i + 1)

(* -------------------------- count_permutations ------------------------- *)
\* the value the for loop leaves in prev: it starts at 0 and takes every
\* cur that is larger, so it ends as the largest of 0 and the curs
LargestCount(curs) ==
    CHOOSE prev \in curs \cup {0} : \A cur \in curs : ~(cur > prev)

RECURSIVE count_permutations(_)
count_permutations(perms) ==
    IF Len(perms) = 0 \/ Len(perms[1].child_permutations) = 0 THEN 0
    ELSE 1 + LargestCount({ count_permutations(perms[i].child_permutations) :
                               i \in DOMAIN perms })

(* ----------------------- forests of Permutation ------------------------ *)
RECURSIVE Forests(_, _)
\* every Vec<Permutation> with exactly n nodes; the nodes carry the distinct
\* one-element sequences <<first>>, <<first+1>>, ... in preorder
Forests(n, first) ==
    IF n = 0 THEN { <<>> }
    ELSE UNION { { <<Permutation(<<first>>, kids)>> \o rest :
                      kids \in Forests(k - 1, first + 1),
                      rest \in Forests(n - k, first + k) } : k \in 1..n }

(* ------------------------------- main ---------------------------------- *)
\* inputs for which no level of the generation has more than MaxChunks
\* chunks (block sizes below min_blocksize \div 2 are never used)
InputDomain(len, bs, minbs) ==
    len <= MaxChunks * (IF minbs \div 2 > 1 THEN minbs \div 2 ELSE 1)

Init ==
    /\ pc = "start"
    /\ \E len \in 1..MaxLen, bs \in 0..MaxBlock, minbs \in 0..MaxBlock :
          /\ InputDomain(len, bs, minbs)
          /\ lines = [i \in 1..len |-> i - 1]
          /\ blocksize = bs
          /\ min_blocksize = minbs
    /\ estimated_permutation_count = 0
    /\ count = 0
    /\ permutations = <<>>
    /\ opt_count = 0
    /\ block_depth = 0
    /\ before = <<>>

Estimate ==
    /\ pc = "start"
    /\ LET e == calculate_estimated_permutation_count(
                    Len(lines), blocksize, min_blocksize)
       IN  IF e = NoReturn
           THEN /\ pc' \in {"panic", "hang"}
                /\ UNCHANGED estimated_permutation_count
           ELSE /\ pc' = "estimated"
                /\ estimated_permutation_count' = e
    /\ UNCHANGED <<lines, blocksize, min_blocksize, count, permutations,
                   opt_count, block_depth, before>>

Shuffle ==
    /\ pc = "estimated"
    /\ LET r == shuffle_lines(lines, blocksize, min_blocksize, 0)
       IN  IF r.panic
           THEN /\ pc' = "panic"
                /\ UNCHANGED <<permutations, count>>
           ELSE /\ pc' = "shuffled"
                /\ permutations' = r.ret
                /\ count' = r.count
    /\ UNCHANGED <<lines, blocksize, min_blocksize,
                   estimated_permutation_count, opt_count, block_depth,
                   before>>

Optimize ==
    /\ pc = "shuffled"
    /\ permutations' = optimize_permutations(permutations)
    /\ opt_count' = optimize_count(permutations, 0)
    /\ before' = permutations
    /\ pc' = "optimized"
    /\ UNCHANGED <<lines, blocksize, min_blocksize,
                   estimated_permutation_count, count, block_depth>>

BlockDepth ==
    /\ pc = "optimized"
    /\ block_depth' = count_permutations(permutations)
    /\ pc' = "done"
    /\ UNCHANGED <<lines, blocksize, min_blocksize,
                   estimated_permutation_count, count, permutations,
                   opt_count, before>>

Next == Estimate \/ Shuffle \/ Optimize \/ BlockDepth

Spec == Init /\ [][Next]_vars

(* ------- optimize_permutations and count_permutations on forests ------- *)
InitForest ==
    /\ pc = "input"
    /\ permutations \in UNION { Forests(n, 1) : n \in 0..MaxNodes }
    /\ lines = <<>>
    /\ blocksize = 0
    /\ min_blocksize = 0
    /\ estimated_permutation_count = 0
    /\ count = 0
    /\ opt_count = 0
    /\ block_depth = 0
    /\ before = <<>>

OptimizeCall ==
    /\ pc = "input"
    /\ permutations' = optimize_permutations(permutations)
    /\ opt_count' = optimize_count(permutations, 0)
    /\ before' = permutations
    /\ pc' = "optimized"
    /\ UNCHANGED <<lines, blocksize, min_blocksize,
                   estimated_permutation_count, count, block_depth>>

OptimizeAgain ==
    /\ pc = "optimized"
    /\ permutations' = optimize_permutations(permutations)
    /\ opt_count' = optimize_count(permutations, 0)
    /\ before' = permutations
    /\ pc' = "reoptimized"
    /\ UNCHANGED <<lines, blocksize, min_blocksize,
                   estimated_permutation_count, count, block_depth>>

DepthCall ==
    /\ pc \in {"input", "optimized", "reoptimized"}
    /\ block_depth' = count_permutations(permutations)
    /\ pc' = "counted"
    /\ UNCHANGED <<lines, blocksize, min_blocksize,
                   estimated_permutation_count, count, permutations,
                   opt_count, before>>

NextForest == OptimizeCall \/ OptimizeAgain \/ DepthCall

SpecForest == InitForest /\ [][NextForest]_vars

(* --------------------------- properties -------------------------------- *)
Range(s) == { s[i] : i \in DOMAIN s }

BagOf(s) == [x \in Range(s) |-> Cardinality({ i \in DOMAIN s : s[i] = x })]

IsPermutationOf(a, b) == Len(a) = Len(b) /\ BagOf(a) = BagOf(b)

RECURSIVE Preorder(_)
\* the sequences of all nodes reachable from a list, in preorder
Preorder(f) ==
    Flatten([i \in DOMAIN f |->
                <<f[i].lines>> \o Preorder(f[i].child_permutations)])

RECURSIVE Bounded(_)
\* the list and every child list reachable from it have length <= K
Bounded(f) ==
    /\ Len(f) <= MAX_PARENT_PERMUTATIONS
    /\ \A i \in DOMAIN f : Bounded(f[i].child_permutations)

IsLeaf(p) == Len(p.child_permutations) = 0

Is884 == Len(lines) = 8 /\ blocksize = 8 /\ min_blocksize = 4

Optimized == pc \in {"optimized", "reoptimized"}

\* C1: every Candidate at any depth of the forest returned by shuffle_lines
\* holds a sequence that is a permutation of the input sequence: the same
\* length and the same multiset of elements.
C1_EverySequenceIsPermutation ==
    pc = "shuffled" =>
        LET all == Preorder(permutations)
        IN  \A i \in DOMAIN all : IsPermutationOf(all[i], lines)

C1_Witness ==
    /\ pc = "shuffled"
    /\ \E i \in DOMAIN permutations :
          /\ permutations[i].lines # lines
          /\ \E j \in DOMAIN permutations[i].child_permutations :
                permutations[i].child_permutations[j].lines
                    # permutations[i].lines

\* C2: optimize_permutations neither creates nor drops a Candidate: the
\* multiset of Candidate sequences reachable from the top-level list after
\* the call equals the multiset reachable before the call.
C2_NoCandidateLostOrDuplicated ==
    Optimized =>
        /\ Len(Preorder(permutations)) = Len(Preorder(before))
        /\ BagOf(Preorder(permutations)) = BagOf(Preorder(before))

C2_Witness ==
    /\ pc = "optimized"
    /\ Len(before) = 5
    /\ \A i \in DOMAIN before : IsLeaf(before[i])
    /\ Len(permutations) <= MAX_PARENT_PERMUTATIONS

\* C3: when optimize_permutations returns, the top-level list and the child
\* list of every reachable Candidate have length <= MAX_PARENT_PERMUTATIONS,
\* child lists that grew by adoption included.
C3_EveryListBounded == Optimized => Bounded(permutations)

C3_Witness ==
    /\ pc = "optimized"
    /\ Len(before) > MAX_PARENT_PERMUTATIONS
    /\ Len(before[1].child_permutations) >= MAX_PARENT_PERMUTATIONS

\* C4: for blockSize >= 1 and minBlockSize >= 1 the estimate equals the
\* final value of the count accumulator of shuffle_lines, which is the
\* number of nodes of the returned forest.
C4_EstimateEqualsGenerated ==
    (pc = "shuffled" /\ blocksize >= 1 /\ min_blocksize >= 1) =>
        /\ estimated_permutation_count = count
        /\ count = Len(Preorder(permutations))

C4_Witness ==
    /\ pc = "shuffled"
    /\ blocksize >= 1
    /\ min_blocksize >= 1
    /\ count > Len(permutations)
    /\ Len(permutations) > 1

\* C5 as stated: for length 8, blockSize 8, minBlockSize 4 shuffle_lines
\* returns exactly 2 Candidates, each with an empty child list.
C5_Original ==
    (pc = "shuffled" /\ Is884) =>
        /\ Len(permutations) = 2
        /\ \A i \in DOMAIN permutations : IsLeaf(permutations[i])

\* C5 amended: for length 8, blockSize 8, minBlockSize 4 shuffle_lines
\* returns exactly 2 Candidates (the two orderings of the chunks of size 4),
\* each with 24 children (the orderings of the 4 chunks of size 2), and
\* every one of these children has an empty child list.
C5_TwoCandidatesWith24Leaves ==
    (pc = "shuffled" /\ Is884) =>
        /\ Len(permutations) = 2
        /\ permutations[1].lines = <<0, 1, 2, 3, 4, 5, 6, 7>>
        /\ permutations[2].lines = <<4, 5, 6, 7, 0, 1, 2, 3>>
        /\ \A i \in DOMAIN permutations :
              /\ Len(permutations[i].child_permutations) = 24
              /\ \A j \in DOMAIN permutations[i].child_permutations :
                    IsLeaf(permutations[i].child_permutations[j])

C5_Witness == pc = "shuffled" /\ Is884 /\ Len(permutations) = 2

\* C6 as stated: calculate_estimated_permutation_count(8, 8, 4) returns 2.
C6_Original ==
    (pc \in {"estimated", "shuffled"} /\ Is884) =>
        /\ estimated_permutation_count = 2
        /\ pc = "shuffled" => count = estimated_permutation_count

\* C6 amended: calculate_estimated_permutation_count(8, 8, 4) returns 50,
\* and this equals the number of Candidates shuffle_lines generates for a
\* sequence of length 8 with blockSize 8 and minBlockSize 4.
C6_EstimateIs50 ==
    (pc \in {"estimated", "shuffled"} /\ Is884) =>
        /\ estimated_permutation_count = 50
        /\ pc = "shuffled" => count = estimated_permutation_count

C6_Witness ==
    pc = "shuffled" /\ Is884 /\ count = estimated_permutation_count

RECURSIVE Depth(_)
\* the depth metric as C7 states it
Depth(f) ==
    IF Len(f) = 0 \/ \A i \in DOMAIN f : IsLeaf(f[i]) THEN 0
    ELSE LET d == [i \in DOMAIN f |-> Depth(f[i].child_permutations)]
         IN  1 + CHOOSE m \in Range(d) : \A i \in DOMAIN d : d[i] <= m

\* C7: count_permutations(L) is 0 when L is empty or no member of L has
\* children, and otherwise 1 + the maximum over all members of L of
\* count_permutations of the member's children, whether or not the first
\* member has children.
C7_DepthFollowsMaximum ==
    pc = "counted" => block_depth = Depth(permutations)

\* C8 as stated: on a forest whose top-level count is already <= K the call
\* leaves the whole forest identical, whatever the descendants' list sizes.
C8_Original ==
    (pc = "optimized" /\ Len(before) <= MAX_PARENT_PERMUTATIONS) =>
        permutations = before

\* C8 amended: on a forest whose top-level count is already <= K the call
\* leaves the top-level list as it is (same members in the same order with
\* the same sequences, each keeping exactly its own descendants); the whole
\* forest is identical when every descendant's child list is <= K as well.
C8_TopLevelUntouched ==
    (pc = "optimized" /\ Len(before) <= MAX_PARENT_PERMUTATIONS) =>
        /\ Len(permutations) = Len(before)
        /\ \A i \in DOMAIN before :
              /\ permutations[i].lines = before[i].lines
              /\ BagOf(Preorder(<<permutations[i]>>))
                    = BagOf(Preorder(<<before[i]>>))
        /\ (\A i \in DOMAIN before : Bounded(before[i].child_permutations))
              => permutations = before

C8_Witness ==
    /\ pc = "optimized"
    /\ Len(before) = MAX_PARENT_PERMUTATIONS
    /\ permutations # before

\* C9: optimize_permutations is idempotent: applied to its own result it
\* returns that result unchanged, and applied to a forest in which every
\* list already has length <= 2 it changes nothing.
C9_Idempotent ==
    /\ pc = "reoptimized" => permutations = before
    /\ (pc = "optimized" /\ Bounded(before)) => permutations = before

C9_Witness ==
    /\ pc = "reoptimized"
    /\ Len(before) = MAX_PARENT_PERMUTATIONS
    /\ Len(Preorder(before)) >= 5

\* C10: with blockSize = 0 or minBlockSize = 0 shuffle_lines reports an
\* error: it never returns a (possibly empty) candidate list as a normal
\* result.
C10_ZeroSizeRejected ==
    (blocksize = 0 \/ min_blocksize = 0) => pc # "shuffled"

====
